---------------------------- MODULE Spec2Model ----------------------------
(***************************************************************************)
(* Model of library/apigw_rest_api.py: the Ansible module that reconciles  *)
(* one named API Gateway REST API (create / update / delete / no change)   *)
(* against the collection the boto3 'apigateway' client exposes.           *)
(*                                                                         *)
(* An invocation (main -> process_request) is split at its remote calls:   *)
(* the get_rest_apis call is one step, the branch taken afterwards         *)
(* together with its create/update/delete call and the terminal            *)
(* exit_json / fail_json is the other.                                     *)
(***************************************************************************)
EXTENDS Integers, Sequences, FiniteSets, TLC

(* ------------------------------ bounds -------------------------------- *)

\* Largest remote collection an execution starts from.
MaxInit == 1

\* Number of invocations of the module in one execution.
MaxRuns == 2

\* Largest number of items the service returns in one page of get_rest_apis.
PageLimit == 2

(* ------------------------------ values -------------------------------- *)

\* Python's None where a string is expected (params.get / api.get of a
\* missing key).
None == "None"

\* Python's None where a dict is expected (no api found / no api returned).
NoApi == [NoneType |-> TRUE]

\* The module processes running against the same account.
Procs == {"p1", "p2"}

\* Values of the 'name' parameter.
Names == {"a", "b"}

\* Values of the 'description' parameter when it is provided.
Descriptions == {"", "v1"}

\* choices of the 'state' parameter.
States == {"present", "absent"}

\* module.params as built from _define_module_argument_spec: 'name' is
\* required, 'description' is None when not provided, 'state' is a choice.
Params == [name : Names, description : Descriptions \cup {None}, state : States]

\* No response of get_rest_apis (yet).
NoResults == [NoneType |-> TRUE]

\* The exceptions a boto3 client call can raise.  ClientError (a fault
\* reported by the service) is not a subclass of BotoCoreError (a fault of
\* the transport / the SDK).
BotoCoreError == [type |-> "BotoCoreError", text |-> "An unspecified error occurred"]
ClientError == [type |-> "ClientError", text |-> "An error occurred (AccessDenied)"]
NoFault == [type |-> "NoFault", text |-> ""]
Faults == {BotoCoreError, ClientError}

\* dict.get(key): the value, or None when the key is missing.
Get(d, key) == IF key \in DOMAIN d THEN d[key] ELSE None

\* Truth value of an api object ("if api:", "if not api:").
Truthy(api) == api # NoApi

\* Truth value of a string parameter ("if params.get('description'):").
TruthyStr(s) == s # None /\ s # ""

\* The REST API objects the service can hold at the start: 'description' is
\* a key of the object only when the API has one.
InitApis(i) ==
  { [id |-> i, name |-> n] : n \in Names }
    \cup { [id |-> i, name |-> n, description |-> d] : n \in Names, d \in Descriptions }

RECURSIVE InitRemotes(_)
InitRemotes(k) ==
  IF k = 0 THEN { <<>> }
  ELSE LET shorter == InitRemotes(k - 1)
       IN  shorter \cup
           UNION { { Append(r, a) : a \in InitApis(k) } : r \in { s \in shorter : Len(s) = k - 1 } }

VARIABLES
  remote,      \* the account's REST APIs, in the order get_rest_apis lists them
  nextId,      \* the id the service gives to the next created API
  pc,          \* pc[p]: where process p is in main / process_request
  params,      \* params[p]: module.params of p's invocation
  check_mode,  \* check_mode[p]: module.check_mode of p's invocation
  HAS_BOTO3,   \* whether boto3, boto and botocore could be imported
  client,      \* client[p]: whether p's ApiGwRestApi holds a boto3 client
  limit,       \* the number of items the service puts in one page of get_rest_apis
  before,      \* before[p]: the account's REST APIs when p's get_rest_apis call was served
  results,     \* results[p]: the response of p's get_rest_apis call
  raised,      \* raised[p]: the exception a client call of p raised
  api,         \* api[p]: what _retrieve_rest_api returned to p
  calls,       \* calls[p]: the boto3 client calls p's invocation issued, in order
  reports,     \* reports[p]: the exit_json / fail_json reports p's invocation made
  outcome,     \* outcome[p]: how p's invocation ended
  pred,        \* pred[p]: summary of the invocation that ended right before p's began
  last,        \* summary of the invocation that ended, while none has begun since
  runs         \* number of invocations begun

vars == <<remote, nextId, HAS_BOTO3, client, limit, pc, params, check_mode, before, results, raised, api, calls, reports, outcome, pred, last, runs>>

TypeOK ==
  /\ nextId \in Nat
  /\ runs \in 0..MaxRuns
  /\ pc \in [Procs -> {"idle", "retrieve", "decide", "done"}]
  /\ params \in [Procs -> Params]
  /\ check_mode \in [Procs -> BOOLEAN]
  /\ outcome \in [Procs -> {"none", "exit_json", "fail_json", "exception"}]

(* --------------------- the boto3 apigateway client -------------------- *)

\* client.get_rest_apis(), called without position and without limit: the
\* response holds the first page of the REST APIs as 'items', and the
\* 'position' of the next page when there is one.
get_rest_apis(coll, lim) ==
  IF Len(coll) <= lim
    THEN [items |-> coll]
    ELSE [items |-> SubSeq(coll, 1, lim), position |-> "next page"]

\* client.create_rest_api(**kwargs): the API the service creates, under the
\* id the service chooses; it has the keys of kwargs.
create_rest_api(id, kw) == [id |-> id] @@ kw

\* One patch operation of update_rest_api applied to an API object.
ApplyPatch(a, patch) ==
  IF patch.op = "replace" /\ patch.path = "/name"
    THEN [a EXCEPT !.name = patch.value]
  ELSE IF patch.op = "replace" /\ patch.path = "/description"
    THEN [description |-> patch.value] @@ a
  ELSE a

RECURSIVE ApplyPatches(_, _)
ApplyPatches(a, ops) ==
  IF ops = <<>> THEN a
  ELSE ApplyPatches(ApplyPatch(a, Head(ops)), Tail(ops))

\* client.update_rest_api(restApiId, patchOperations): the collection after
\* the update.
update_rest_api(coll, restApiId, ops) ==
  [i \in 1..Len(coll) |->
     IF coll[i].id = restApiId THEN ApplyPatches(coll[i], ops) ELSE coll[i]]

\* client.delete_rest_api(restApiId): the collection after the delete.
delete_rest_api(coll, restApiId) == SelectSeq(coll, LAMBDA a : a.id # restApiId)

\* What client.delete_rest_api returns: the response metadata, not an API.
DeleteResponse == [ResponseMetadata |-> "HTTPStatusCode 202"]

\* The API with the given id, as the service holds it.
ApiById(coll, restApiId) ==
  LET hits == SelectSeq(coll, LAMBDA a : a.id = restApiId)
  IN  IF hits = <<>> THEN NoApi ELSE Head(hits)

\* What a call addressed to restApiId can raise: the service rejects it
\* (a ClientError) when it holds no API with that id.
RaisedBy(coll, restApiId) ==
  IF ApiById(coll, restApiId) = NoApi THEN {ClientError} ELSE Faults \cup {NoFault}

(* ------------------------- ApiGwRestApi helpers ----------------------- *)

\* _retrieve_rest_api without its filter on the name.
_retrieve_rest_api_AnyName(res, prm) ==
  IF Len(res.items) # 0 THEN res.items[1] ELSE NoApi

\* _retrieve_rest_api: the first item whose name is params['name'], or None.
_retrieve_rest_api(res, prm) ==
  LET found == SelectSeq(res.items, LAMBDA result : result.name = Get(prm, "name"))
  IN  IF Len(found) # 0 THEN found[1] ELSE NoApi

\* _is_changed comparing the description of the api with the wrong parameter.
_is_changed_Typo(a, prm) ==
  \/ Get(a, "name") # Get(prm, "name")
  \/ Get(a, "description") # Get(prm, "name")

\* _is_changed
_is_changed(a, prm) ==
  \/ Get(a, "name") # Get(prm, "name")
  \/ Get(a, "description") # Get(prm, "description")

\* patchOperations without the replace of /name.
patchOperations_DescriptionOnly(prm) ==
  LET description == IF Get(prm, "description") = None THEN "" ELSE Get(prm, "description")
  IN  << [op |-> "replace", path |-> "/description", value |-> description] >>

\* _update_api: the patchOperations argument of update_rest_api.
patchOperations(prm) ==
  LET description == IF Get(prm, "description") = None THEN "" ELSE Get(prm, "description")
  IN  << [op |-> "replace", path |-> "/name", value |-> Get(prm, "name")],
         [op |-> "replace", path |-> "/description", value |-> description] >>

\* _create_api: the keyword arguments of create_rest_api.
kwargs(prm) ==
  IF TruthyStr(Get(prm, "description"))
    THEN [name |-> Get(prm, "name"), description |-> Get(prm, "description")]
    ELSE [name |-> Get(prm, "name")]

\* The guard of the client calls with its "not" left out.
IssuesCall_Inverted(chk) == chk

\* The guard of the client calls with check_mode ignored.
IssuesCall_Always(chk) == TRUE

\* "if not self.module.check_mode:" guarding each mutating client call.
IssuesCall(chk) == ~chk

\* The msg of fail_json in the except clause around a client call.
ErrorMsg(function, e) ==
  << "Encountered fatal error calling boto3 ", function, " function: ", e.text >>

(* --------------------------- terminal outcomes ------------------------ *)

NoReport == [NoneType |-> TRUE]

\* No invocation has ended yet.
NoRun == [outcome |-> "none"]

\* What an invocation with parameters prm keeps of the invocation that ended
\* right before it began: whether that one had the same parameters, its
\* check mode and how it ended.
Predecessor(prev, prm) ==
  IF prev = NoRun THEN NoRun
  ELSE [same_params |-> prev.params = prm, check_mode |-> prev.check_mode,
        outcome |-> prev.outcome, changed |-> prev.changed]

\* The invocation of p ends with outcome out and terminal report rep.
Finish(p, out, rep) ==
  /\ pc' = [pc EXCEPT ![p] = "done"]
  /\ outcome' = [outcome EXCEPT ![p] = out]
  /\ reports' = [reports EXCEPT ![p] = IF rep = NoReport THEN @ ELSE Append(@, rep)]
  /\ last' = [params |-> params[p], check_mode |-> check_mode[p], outcome |-> out,
              changed |-> IF out = "exit_json" THEN rep.changed ELSE FALSE]

\* module.exit_json(changed=changed, api=api)
exit_json(p, changed, a) ==
  Finish(p, "exit_json", [kind |-> "exit_json", changed |-> changed, api |-> a])

\* module.fail_json(msg=msg): reports the failure and exits the process.
fail_json(p, msg) ==
  Finish(p, "fail_json", [kind |-> "fail_json", msg |-> msg])

\* The except clause with a fail_json that returns to its caller instead of
\* exiting, so that process_request goes on.
Raised_GoesOn(p, function, e) ==
  /\ raised' = [raised EXCEPT ![p] = e]
  /\ pc' = [pc EXCEPT ![p] = "decide"]
  /\ reports' = [reports EXCEPT ![p] =
                   Append(@, [kind |-> "fail_json", msg |-> ErrorMsg(function, e)])]
  /\ UNCHANGED <<outcome, last>>

\* A client call of p raised e: "except BotoCoreError as e" reports it with
\* fail_json; any other exception leaves process_request uncaught.
Raised(p, function, e) ==
  /\ raised' = [raised EXCEPT ![p] = e]
  /\ IF e.type = "BotoCoreError"
       THEN fail_json(p, ErrorMsg(function, e))
       ELSE Finish(p, "exception", NoReport)

\* p issues a client call.
Call(p, c) == calls' = [calls EXCEPT ![p] = Append(@, c)]

(* ------------------------------- actions ------------------------------ *)

Init ==
  /\ remote \in InitRemotes(MaxInit)
  /\ nextId = MaxInit + 1
  /\ limit \in 1..PageLimit
  /\ HAS_BOTO3 \in BOOLEAN
  /\ client = [p \in Procs |-> FALSE]
  /\ before = [p \in Procs |-> <<>>]
  /\ pc = [p \in Procs |-> "idle"]
  /\ params = [p \in Procs |-> [name |-> "a", description |-> None, state |-> "present"]]
  /\ check_mode = [p \in Procs |-> FALSE]
  /\ results = [p \in Procs |-> NoResults]
  /\ raised = [p \in Procs |-> NoFault]
  /\ api = [p \in Procs |-> NoApi]
  /\ calls = [p \in Procs |-> <<>>]
  /\ reports = [p \in Procs |-> <<>>]
  /\ outcome = [p \in Procs |-> "none"]
  /\ pred = [p \in Procs |-> NoRun]
  /\ last = NoRun
  /\ runs = 0

\* No invocation is under way.
Quiet == \A q \in Procs : pc[q] \in {"idle", "done"}

\* The guard of __init__ with the test of HAS_BOTO3 left out.
MissingSdk_Ignored(has) == FALSE

\* __init__: "if (not HAS_BOTO3):"
MissingSdk(has) == ~has

\* The msg of the fail_json of __init__.
RequiredMsg == << "boto and boto3 are required for this module" >>

\* main() run by p: the runtime builds the module from the task's arguments
\* and its check-mode flag; ApiGwRestApi(module) reports a missing SDK with
\* fail_json, or else creates the client, and process_request begins.
Invoke(p) ==
  /\ runs < MaxRuns
  /\ runs' = runs + 1
  /\ \E prm \in Params, chk \in BOOLEAN :
       /\ params' = [params EXCEPT ![p] = prm]
       /\ check_mode' = [check_mode EXCEPT ![p] = chk]
       /\ pred' = [pred EXCEPT ![p] = Predecessor(last, prm)]
       /\ last' = IF MissingSdk(HAS_BOTO3)
                    THEN [params |-> prm, check_mode |-> chk, outcome |-> "fail_json",
                          changed |-> FALSE]
                    ELSE NoRun
  /\ IF MissingSdk(HAS_BOTO3)
       THEN /\ pc' = [pc EXCEPT ![p] = "done"]
            /\ client' = [client EXCEPT ![p] = FALSE]
            /\ reports' = [reports EXCEPT ![p] =
                             << [kind |-> "fail_json", msg |-> RequiredMsg] >>]
            /\ outcome' = [outcome EXCEPT ![p] = "fail_json"]
       ELSE /\ pc' = [pc EXCEPT ![p] = "retrieve"]
            /\ client' = [client EXCEPT ![p] = TRUE]
            /\ reports' = [reports EXCEPT ![p] = <<>>]
            /\ outcome' = [outcome EXCEPT ![p] = "none"]
  /\ before' = [before EXCEPT ![p] = remote]
  /\ results' = [results EXCEPT ![p] = NoResults]
  /\ raised' = [raised EXCEPT ![p] = NoFault]
  /\ api' = [api EXCEPT ![p] = NoApi]
  /\ calls' = [calls EXCEPT ![p] = <<>>]
  /\ UNCHANGED <<remote, nextId, HAS_BOTO3, limit>>

\* main() when the tasks of a play run one after the other.
main(p) ==
  /\ Quiet
  /\ Invoke(p)

\* process_request, first half: api = self._retrieve_rest_api()
RetrieveRestApi(p) ==
  /\ pc[p] = "retrieve"
  /\ Call(p, [function |-> "get_rest_apis"])
  /\ before' = [before EXCEPT ![p] = remote]
  /\ \E e \in Faults \cup {NoFault} :
       IF e = NoFault
         THEN /\ results' = [results EXCEPT ![p] = get_rest_apis(remote, limit)]
              /\ api' = [api EXCEPT ![p] =
                            _retrieve_rest_api(get_rest_apis(remote, limit), params[p])]
              /\ pc' = [pc EXCEPT ![p] = "decide"]
              /\ UNCHANGED <<reports, outcome, last, raised>>
         ELSE /\ Raised(p, "get_rest_apis", e)
              /\ UNCHANGED <<results, api>>
  /\ UNCHANGED <<remote, nextId, HAS_BOTO3, client, limit, params, check_mode, pred, runs>>

\* process_request, state 'absent': _maybe_delete_api(api), then exit_json.
MaybeDeleteApi(p) ==
  /\ pc[p] = "decide"
  /\ Get(params[p], "state") = "absent"
  /\ IF Truthy(api[p]) /\ IssuesCall(check_mode[p])
       THEN /\ Call(p, [function |-> "delete_rest_api", restApiId |-> Get(api[p], "id")])
            /\ \E e \in RaisedBy(remote, Get(api[p], "id")) :
                 IF e = NoFault
                   THEN /\ remote' = delete_rest_api(remote, Get(api[p], "id"))
                        /\ exit_json(p, TRUE, DeleteResponse)
                        /\ UNCHANGED raised
                   ELSE /\ Raised(p, "delete_rest_api", e)
                        /\ UNCHANGED remote
       ELSE /\ exit_json(p, Truthy(api[p]), api[p])
            /\ UNCHANGED <<remote, calls, raised>>
  /\ UNCHANGED <<nextId, HAS_BOTO3, client, limit, params, check_mode, before, results, api, pred, runs>>

\* process_request, state 'present', no api found: _create_api, then exit_json.
CreateApi(p) ==
  /\ pc[p] = "decide"
  /\ Get(params[p], "state") # "absent"
  /\ ~Truthy(api[p])
  /\ IF IssuesCall(check_mode[p])
       THEN /\ Call(p, [function |-> "create_rest_api", kwargs |-> kwargs(params[p])])
            /\ \E e \in Faults \cup {NoFault} :
                 IF e = NoFault
                   THEN LET created == create_rest_api(nextId, kwargs(params[p]))
                        IN  /\ remote' = Append(remote, created)
                            /\ nextId' = nextId + 1
                            /\ exit_json(p, TRUE, created)
                            /\ UNCHANGED raised
                   ELSE /\ Raised(p, "create_rest_api", e)
                        /\ UNCHANGED <<remote, nextId>>
       ELSE /\ exit_json(p, TRUE, NoApi)
            /\ UNCHANGED <<remote, nextId, calls, raised>>
  /\ UNCHANGED <<HAS_BOTO3, client, limit, params, check_mode, before, results, api, pred, runs>>

\* process_request, state 'present', api found and _is_changed:
\* _update_api(api.get('id')), then exit_json.
UpdateApi(p) ==
  /\ pc[p] = "decide"
  /\ Get(params[p], "state") # "absent"
  /\ Truthy(api[p])
  /\ _is_changed(api[p], params[p])
  /\ IF IssuesCall(check_mode[p])
       THEN LET id == Get(api[p], "id")
            IN  /\ Call(p, [function |-> "update_rest_api", restApiId |-> id,
                            patchOperations |-> patchOperations(params[p])])
                /\ \E e \in RaisedBy(remote, id) :
                     IF e = NoFault
                       THEN LET updated == update_rest_api(remote, id, patchOperations(params[p]))
                            IN  /\ remote' = updated
                                /\ exit_json(p, TRUE, ApiById(updated, id))
                                /\ UNCHANGED raised
                       ELSE /\ Raised(p, "update_rest_api", e)
                            /\ UNCHANGED remote
       ELSE /\ exit_json(p, TRUE, NoApi)
            /\ UNCHANGED <<remote, calls, raised>>
  /\ UNCHANGED <<nextId, HAS_BOTO3, client, limit, params, check_mode, before, results, api, pred, runs>>

\* process_request, state 'present', api found and not _is_changed:
\* _create_or_update_api returns (False, api), then exit_json.
KeepApi(p) ==
  /\ pc[p] = "decide"
  /\ Get(params[p], "state") # "absent"
  /\ Truthy(api[p])
  /\ ~_is_changed(api[p], params[p])
  /\ exit_json(p, FALSE, api[p])
  /\ UNCHANGED <<remote, nextId, HAS_BOTO3, client, limit, params, check_mode, before, results,
                 raised, api, calls, pred, runs>>

\* One invocation of the module at a time (a play runs its tasks in order).
Next ==
  \/ main("p1")
  \/ RetrieveRestApi("p1")
  \/ MaybeDeleteApi("p1")
  \/ CreateApi("p1")
  \/ UpdateApi("p1")
  \/ KeepApi("p1")

Spec == Init /\ [][Next]_vars

(* ---------------------- vocabulary of the properties ------------------ *)

Done(p) == pc[p] = "done"

\* The invocation of p ended with exit_json.
Exited(p) == Done(p) /\ outcome[p] = "exit_json"

\* The changed value and the api the invocation of p reported with exit_json.
Changed(p) == reports[p][1].changed
Reported(p) == reports[p][1].api

Mutating == {"create_rest_api", "update_rest_api", "delete_rest_api"}

CallsTo(p, function) == SelectSeq(calls[p], LAMBDA c : c.function = function)
MutatingCalls(p) == SelectSeq(calls[p], LAMBDA c : c.function \in Mutating)

\* The get_rest_apis call of p returned.
Listed(p) == results[p] # NoResults

\* Positions of the listed APIs that carry the desired name.
Matches(p) ==
  { i \in 1..Len(results[p].items) : results[p].items[i].name = params[p].name }

HasMatch(p) == Listed(p) /\ Matches(p) # {}
NoMatch(p) == Listed(p) /\ Matches(p) = {}

\* The matching remote resource: the first listed API of the desired name.
FirstMatch(p) ==
  results[p].items[CHOOSE i \in Matches(p) : \A j \in Matches(p) : i <= j]

\* Field-by-field comparison of a remote resource with the desired state.
NameDiffers(a, prm) == Get(a, "name") # prm.name
DescriptionDiffers(a, prm) == Get(a, "description") # prm.description
Differs(a, prm) == NameDiffers(a, prm) \/ DescriptionDiffers(a, prm)

\* A desired description, an absent one counting as the empty string.
OrEmpty(d) == IF d = None THEN "" ELSE d

ListCall == [function |-> "get_rest_apis"]

(* ------------------------------- C1 ----------------------------------- *)

\* C1: idempotence: when a non-simulated invocation reported changed=true,
\* the invocation that follows it immediately with the same parameters (no
\* one else touching the collection in between) reports changed=false.
\* Stated for state 'present' and a list call answered with the whole
\* collection.
C1_Idempotent ==
  \A p \in Procs :
    ( /\ Exited(p)
      /\ params[p].state = "present"
      /\ results[p].items = before[p]
      /\ pred[p] # NoRun
      /\ pred[p].same_params
      /\ ~pred[p].check_mode
      /\ pred[p].outcome = "exit_json"
      /\ pred[p].changed )
    => ~Changed(p)

(* ------------------------------- C2 ----------------------------------- *)

C3_SimulateNoMutation ==
  \A p \in Procs :
    /\ check_mode[p] => MutatingCalls(p) = <<>>
    /\ ( /\ Exited(p)
         /\ ~check_mode[p]
         /\ pred[p] # NoRun
         /\ pred[p].same_params
         /\ pred[p].check_mode
         /\ pred[p].outcome = "exit_json" )
       => Changed(p) = pred[p].changed

\* A non-simulated invocation that changed the collection, right after a
\* check-mode invocation with the same parameters that predicted the change.
C3_Witness ==
  \E p \in Procs :
    /\ Exited(p) /\ ~check_mode[p] /\ Changed(p)
    /\ Len(MutatingCalls(p)) = 1
    /\ pred[p] # NoRun
    /\ pred[p].same_params /\ pred[p].check_mode
    /\ pred[p].outcome = "exit_json" /\ pred[p].changed

(* ------------------------------- C4 ----------------------------------- *)

\* C4: in check mode the api reported is the one the lookup fetched (None
\* when it fetched none).
C4_SimulateReportsFetched ==
  \A p \in Procs :
    (Exited(p) /\ check_mode[p]) => Reported(p) = api[p]

(* ------------------------------- C5 ----------------------------------- *)

\* C5: when a client call raises, whatever it raises, the invocation ends
\* with exactly one report, a fail_json whose msg names the call and carries
\* the text of the exception, and with no exit_json.
C5_FaultReportedOnce ==
  \A p \in Procs :
    (Done(p) /\ raised[p] # NoFault)
    => /\ Len(reports[p]) = 1
       /\ reports[p][1].kind = "fail_json"
       /\ \E i \in DOMAIN reports[p][1].msg :
            reports[p][1].msg[i] = calls[p][Len(calls[p])].function
       /\ \E i \in DOMAIN reports[p][1].msg :
            reports[p][1].msg[i] = raised[p].text

(* ------------------------------- C6 ----------------------------------- *)

\* The name plus the description when the caller provided one.
Provided(prm) ==
  IF prm.description = None
    THEN [name |-> prm.name]
    ELSE [name |-> prm.name, description |-> prm.description]

\* C6: with state 'present' and no matching resource, a non-simulated
\* invocation issues, after the list call, exactly one create call and no
\* other call; its arguments are the name and the description the caller
\* provided, whatever its value; changed=true is reported.  Stated for
\* invocations none of whose calls raises.
C6_CreateCarriesProvided ==
  \A p \in Procs :
    ( /\ Done(p)
      /\ params[p].state = "present"
      /\ ~check_mode[p]
      /\ raised[p] = NoFault
      /\ NoMatch(p) )
    => /\ calls[p] =
            << ListCall,
               [function |-> "create_rest_api", kwargs |-> Provided(params[p])] >>
       /\ Exited(p) /\ Changed(p)

(* ------------------------------- C7 ----------------------------------- *)

C8_AbsentNoop ==
  \A p \in Procs :
    ( /\ Done(p)
      /\ params[p].state = "absent"
      /\ NoMatch(p) )
    => /\ calls[p] = << ListCall >>
       /\ reports[p] = << [kind |-> "exit_json", changed |-> FALSE, api |-> NoApi] >>
       /\ outcome[p] = "exit_json"

\* State 'absent' for a name no listed API has, while other APIs are listed.
C8_Witness ==
  \E p \in Procs :
    /\ Exited(p) /\ params[p].state = "absent" /\ ~check_mode[p]
    /\ NoMatch(p)
    /\ Len(results[p].items) > 0
    /\ remote = before[p]

(* ------------------------------- C9 ----------------------------------- *)

C10_AbsentIsEmpty ==
  \A p \in Procs :
    ( /\ Exited(p)
      /\ params[p].state = "present"
      /\ Truthy(api[p])
      /\ "description" \in DOMAIN api[p] )
    => ( Changed(p) <=>
           \/ api[p].name # params[p].name
           \/ api[p].description # OrEmpty(params[p].description) )

(* ------------------------------- C11 ---------------------------------- *)

\* C11: with state 'absent' and a matching resource, the api a
\* non-simulated invocation reports is the resource as the lookup fetched
\* it before the delete call.
C11_DeleteReportsSnapshot ==
  \A p \in Procs :
    ( /\ Exited(p)
      /\ params[p].state = "absent"
      /\ ~check_mode[p]
      /\ HasMatch(p) )
    => Reported(p) = FirstMatch(p)

(* ------------------------------- C12 ---------------------------------- *)

\* Positions of the APIs of the desired name in the whole collection, as it
\* was when the list call of p was served.
MatchesInCollection(p) ==
  { i \in 1..Len(before[p]) : before[p][i].name = params[p].name }

\* C12: the lookup returns the first API of the desired name of the whole
\* collection, wherever it lies, and None only when the collection holds no
\* API of that name.
C12_LookupWholeCollection ==
  \A p \in Procs :
    Listed(p)
    => IF MatchesInCollection(p) = {}
         THEN api[p] = NoApi
         ELSE api[p] =
                before[p][CHOOSE i \in MatchesInCollection(p) :
                            \A j \in MatchesInCollection(p) : i <= j]

(* ------------------------------- C13 ---------------------------------- *)

\* C13: when the SDK could not be imported, the invocation reports 'boto
\* and boto3 are required for this module' with fail_json and nothing else,
\* holds no client and issues no client call.
C13_MissingSdkReported ==
  \A p \in Procs :
    (~HAS_BOTO3 /\ pc[p] # "idle")
    => /\ pc[p] = "done"
       /\ reports[p] =
            << [kind |-> "fail_json",
                msg |-> << "boto and boto3 are required for this module" >>] >>
       /\ outcome[p] = "fail_json"
       /\ ~client[p]
       /\ calls[p] = <<>>

\* Two invocations without the SDK, each ended by the report.
C13_Witness ==
  \E p \in Procs :
    /\ ~HAS_BOTO3 /\ pc[p] = "done" /\ runs = MaxRuns
    /\ Len(reports[p]) = 1
    /\ remote # <<>>

(* ------------------------------- C14 ---------------------------------- *)

\* C14: an invocation of process_request that has ended issued exactly one
\* list call, before any mutating call, at most one mutating call, no call
\* twice, and made exactly one terminal report (an exit_json or a
\* fail_json).
C14_SinglePass ==
  \A p \in Procs :
    (Done(p) /\ client[p])
    => /\ Len(calls[p]) \in {1, 2}
       /\ calls[p][1] = ListCall
       /\ Len(CallsTo(p, "get_rest_apis")) = 1
       /\ Len(MutatingCalls(p)) <= 1
       /\ Len(reports[p]) = 1
       /\ reports[p][1].kind \in {"exit_json", "fail_json"}

(* ------------------------------- C15 ---------------------------------- *)

UniqueNames(coll) ==
  \A i, j \in 1..Len(coll) : coll[i].name = coll[j].name => i = j

\* C16: invocations that run one after the other keep a collection that
\* holds at most one API per name that way.
C16_UniqueNamesKept == [][UniqueNames(remote) => UniqueNames(remote')]_vars

(* ------------------------------- C17 ---------------------------------- *)

\* main() run by a process of its own, whatever the other processes do.
main_concurrent(p) ==
  /\ pc[p] = "idle"
  /\ Invoke(p)

\* Invocations that run as independent processes against the same account:
\* their client calls interleave in any order.
NextConcurrent ==
  \E p \in Procs :
    \/ main_concurrent(p)
    \/ RetrieveRestApi(p)
    \/ MaybeDeleteApi(p)
    \/ CreateApi(p)
    \/ UpdateApi(p)
    \/ KeepApi(p)

SpecConcurrent == Init /\ [][NextConcurrent]_vars

\* Number of APIs of a name in a collection.
CountOf(coll, name) == Cardinality({ i \in 1..Len(coll) : coll[i].name = name })

\* C17: when two invocations with state 'present' for the same name have
\* run concurrently, the collection holds at most one API of that name.
\* Stated for invocations whose list calls were answered with the whole
\* collection, which held at most one API of that name.
C17_NoDuplicateByRace ==
  \A p, q \in Procs :
    ( /\ p # q
      /\ Exited(p) /\ Exited(q)
      /\ params[p].state = "present" /\ params[q].state = "present"
      /\ params[p].name = params[q].name
      /\ Listed(p) /\ Listed(q)
      /\ results[p].items = before[p] /\ results[q].items = before[q]
      /\ CountOf(before[p], params[p].name) <= 1
      /\ CountOf(before[q], params[q].name) <= 1 )
    => CountOf(remote, params[p].name) <= 1

(* ------------------------------- C18 ---------------------------------- *)

\* The APIs of a collection whose name is not the given one, in order.
Others(coll, name) == SelectSeq(coll, LAMBDA a : a.name # name)

\* C18: every update or delete call of an invocation carries the id of the
\* api its own lookup returned, an api of the desired name, and the APIs of
\* any other name are in the collection as they were.
C18_OthersUntouched ==
  \A p \in Procs :
    (client[p] /\ pc[p] \in {"decide", "done"})
    => /\ \A i \in 1..Len(calls[p]) :
            calls[p][i].function \in {"update_rest_api", "delete_rest_api"}
            => /\ Truthy(api[p])
               /\ api[p].name = params[p].name
               /\ calls[p][i].restApiId = api[p].id
       /\ Others(remote, params[p].name) = Others(before[p], params[p].name)

\* A delete or an update that changed the collection while it holds an API
\* of another name, listed before the one the call addressed.
C18_Witness ==
  \E p \in Procs :
    /\ Exited(p) /\ ~check_mode[p]
    /\ Len(CallsTo(p, "update_rest_api")) + Len(CallsTo(p, "delete_rest_api")) = 1
    /\ remote # before[p]
    /\ before[p][1].name # params[p].name

(* ------------------------------- C19 ---------------------------------- *)

\* C19: after a non-simulated invocation that ended with exit_json, on a
\* collection that held at most one API of the desired name, the collection
\* agrees with the parameters: with state 'present' it holds an API of that
\* name with the desired description (an absent description counting as
\* ""), with state 'absent' it holds no API of that name.
C19_Converges ==
  \A p \in Procs :
    ( /\ Exited(p)
      /\ ~check_mode[p]
      /\ CountOf(before[p], params[p].name) <= 1 )
    => IF params[p].state = "present"
         THEN \E i \in 1..Len(remote) :
                /\ remote[i].name = params[p].name
                /\ OrEmpty(Get(remote[i], "description")) = OrEmpty(params[p].description)
         ELSE CountOf(remote, params[p].name) = 0

====
